---- MODULE Spec2Model ----
(***************************************************************************)
(* Schedule-conflict detection of the OpenKMS backend                      *)
(* (app/services/conflict.py) over the trainings and registrations tables, *)
(* and the registration workflow that calls it                             *)
(* (app/api/v1/endpoints/registrations.py, app/crud/registration.py).      *)
(* Spec runs one conflict check step by step on fixed tables; SpecFlow     *)
(* runs the workflow's calls, one action per call, on changing tables.     *)
(* SpecSnapshot runs the check's steps with confirm and cancel calls of    *)
(* other requests between them; SpecRequests runs register and cancel      *)
(* requests one database round trip at a time; SpecTraining runs the       *)
(* training endpoints (create, update, publish); SpecAuth runs             *)
(* CRUDUser.authenticate on the users table.                               *)
(*                                                                         *)
(* Time stamps are minutes since midnight of day 0, all in one time zone.  *)
(* training_crud.get is read as CRUDBase.get, the look-up by primary key:  *)
(* the call sites pass the key under the keyword training_id where         *)
(* CRUDBase.get names it id; the model follows the look-up.                *)
(***************************************************************************)
EXTENDS Integers, Sequences, FiniteSets, TLC

\* ------------------------------------------------------------------ bounds
MaxTrainings == 3
MaxRegs == 2
MaxPairRegs == 1
MaxParticipants == 2
MaxFlowRegs == 2
MaxDeficit == 1
MaxCreated == 2
MaxRequests == 3

Users == {1, 2}

\* ---------------------------------------------------------- program constants
buffer_minutes == 30
travel_buffer_hours == 1
default_limit == 100
default_max_participants == 30
MinutesPerHour == 60
MinutesPerDay == 1440

RegistrationStatus == {"pending", "confirmed", "waitlisted", "cancelled"}

VARIABLES
    trainings,          \* trainings table: id -> row
    registrations,      \* registrations table, in registration_date order
    pc,                 \* position of the running conflict check
    user_id,            \* its arguments
    training_id,
    target_training,    \* its locals
    user_registrations, \* the last commitment list it fetched
    conflicts,
    fetches,            \* what each rule fetched: <<rule, list>>, in order
    response,           \* what the last call of the workflow gave its caller
    users,              \* users table: id -> row
    requests            \* the requests in flight: slot -> position and locals

vars == <<trainings, registrations, pc, user_id, training_id, target_training,
          user_registrations, conflicts, fetches, response, users,
          requests>>

\* ------------------------------------------------------------ the two tables
None == [id |-> 0, start_date |-> 0, end_date |-> 0, location |-> "None",
         status |-> "None", max_participants |-> 0, current_participants |-> 0]

\* CRUDBase.get: the row with that primary key, or None
training_get(tid) ==
    IF tid \in DOMAIN trainings THEN trainings[tid] ELSE None

Take(s, n) == IF Len(s) <= n THEN s ELSE SubSeq(s, 1, n)

\* a registration row with its training relationship loaded (selectinload)
LoadTraining(i) ==
    [id |-> i,
     user_id |-> registrations[i].user_id,
     training_id |-> registrations[i].training_id,
     status |-> registrations[i].status,
     is_active |-> registrations[i].is_active,
     training |-> training_get(registrations[i].training_id)]

\* variant: the query leaves out the pending registrations only
RECURSIVE SelectNotPending(_, _)
SelectNotPending(uid, i) ==
    IF i > Len(registrations) THEN << >>
    ELSE (IF /\ registrations[i].user_id = uid
             /\ registrations[i].status # "pending"
             /\ registrations[i].is_active = TRUE
          THEN << LoadTraining(i) >> ELSE << >>) \o SelectNotPending(uid, i + 1)

RECURSIVE SelectConfirmed(_, _)
SelectConfirmed(uid, i) ==
    IF i > Len(registrations) THEN << >>
    ELSE (IF /\ registrations[i].user_id = uid
             /\ registrations[i].status = "confirmed"
             /\ registrations[i].is_active = TRUE
          THEN << LoadTraining(i) >> ELSE << >>) \o SelectConfirmed(uid, i + 1)

\* variant: the status condition of the query is missing
RECURSIVE SelectActive(_, _)
SelectActive(uid, i) ==
    IF i > Len(registrations) THEN << >>
    ELSE (IF /\ registrations[i].user_id = uid
             /\ registrations[i].is_active = TRUE
          THEN << LoadTraining(i) >> ELSE << >>) \o SelectActive(uid, i + 1)

get_registrations_for_user_any_status(uid) ==
    Take(SelectActive(uid, 1), default_limit)

get_confirmed_registrations_for_user(uid) ==
    Take(SelectConfirmed(uid, 1), default_limit)

\* ------------------------------------------------------------- pure helpers
date(t) == t \div MinutesPerDay
\* strftime("%H:%M")
strftime_HM(t) == << (t % MinutesPerDay) \div MinutesPerHour, t % MinutesPerHour >>

\* variant: the buffer widens the start of the first interval only
check_time_overlap_start_buffer(start1, end1, start2, end2) ==
    LET adjusted_start1 == start1 - buffer_minutes
        adjusted_end1 == end1
    IN  adjusted_start1 < end2 /\ adjusted_end1 > start2

\* variant: closed comparison, touching buffered intervals overlap
check_time_overlap_closed(start1, end1, start2, end2) ==
    LET adjusted_start1 == start1 - buffer_minutes
        adjusted_end1 == end1 + buffer_minutes
    IN  adjusted_start1 <= end2 /\ adjusted_end1 >= start2

check_time_overlap(start1, end1, start2, end2) ==
    LET adjusted_start1 == start1 - buffer_minutes
        adjusted_end1 == end1 + buffer_minutes
    IN  adjusted_start1 < end2 /\ adjusted_end1 > start2

office_travel_times ==
    ( <<"NYC", "Boston">> :> 4 ) @@ ( <<"NYC", "Dallas">> :> 6 ) @@
    ( <<"Boston", "Dallas">> :> 8 ) @@
    ( <<"Boston", "NYC">> :> 4 ) @@ ( <<"Dallas", "NYC">> :> 6 ) @@
    ( <<"Dallas", "Boston">> :> 8 ) @@
    ( <<"NYC", "NYC">> :> 0 ) @@ ( <<"Boston", "Boston">> :> 0 ) @@
    ( <<"Dallas", "Dallas">> :> 0 )

\* variant: an unlisted pair falls back to the NYC-Boston time
travel_time_lookup_default4(location1, location2) ==
    IF <<location1, location2>> \in DOMAIN office_travel_times
    THEN office_travel_times[<<location1, location2>>]
    ELSE IF <<location2, location1>> \in DOMAIN office_travel_times
         THEN office_travel_times[<<location2, location1>>]
         ELSE 4

\* office_travel_times.get((l1, l2), office_travel_times.get((l2, l1), 0.0))
travel_time_lookup(location1, location2) ==
    IF <<location1, location2>> \in DOMAIN office_travel_times
    THEN office_travel_times[<<location1, location2>>]
    ELSE IF <<location2, location1>> \in DOMAIN office_travel_times
         THEN office_travel_times[<<location2, location1>>]
         ELSE 0

\* variant: the one-hour buffer is not added to the travel time
check_insufficient_travel_time_no_buffer(start1, end1, start2, end2, travel_time_hours) ==
    LET minimum_gap == travel_time_hours * MinutesPerHour
    IN  IF date(start1) # date(start2) THEN FALSE
        ELSE IF end1 < start2 THEN (start2 - end1) < minimum_gap
        ELSE IF end2 < start1 THEN (start1 - end2) < minimum_gap
        ELSE FALSE

\* variant: the same-day test is missing
check_insufficient_travel_time_any_day(start1, end1, start2, end2, travel_time_hours) ==
    LET minimum_gap == travel_time_hours * MinutesPerHour
                       + travel_buffer_hours * MinutesPerHour
    IN  IF end1 < start2 THEN (start2 - end1) < minimum_gap
        ELSE IF end2 < start1 THEN (start1 - end2) < minimum_gap
        ELSE FALSE

check_insufficient_travel_time(start1, end1, start2, end2, travel_time_hours) ==
    LET minimum_gap == travel_time_hours * MinutesPerHour
                       + travel_buffer_hours * MinutesPerHour
    IN  IF date(start1) # date(start2) THEN FALSE
        ELSE IF end1 < start2 THEN (start2 - end1) < minimum_gap
        ELSE IF end2 < start1 THEN (start1 - end2) < minimum_gap
        ELSE FALSE

\* ------------------------------------------------------------- the findings
TrainingNotFound ==
    [type |-> "training_not_found", severity |-> "error"]

DuplicateRegistration(t) ==
    [type |-> "duplicate_registration", severity |-> "error",
     training |-> [id |-> t.id, start_date |-> t.start_date]]

ConflictingTraining(t) ==
    [id |-> t.id, start_date |-> t.start_date, end_date |-> t.end_date,
     location |-> t.location]

ScheduleOverlap(t) ==
    [type |-> "schedule_overlap", severity |-> "error",
     conflicting_training |-> ConflictingTraining(t)]

TravelTimeConflict(location1, location2, travel_time, t) ==
    [type |-> "travel_time_conflict", severity |-> "warning",
     locations |-> <<location1, location2>>,
     travel_time_hours |-> travel_time,
     conflicting_training |-> ConflictingTraining(t)]

ExistingTraining(t) ==
    [id |-> t.id, start_time |-> strftime_HM(t.start_date),
     end_time |-> strftime_HM(t.end_date)]

SameDayMultiple(target_date, same_day_trainings) ==
    [type |-> "same_day_multiple_trainings", severity |-> "warning",
     count |-> Len(same_day_trainings),
     training_date |-> target_date,
     existing_trainings |->
        [i \in 1..Len(same_day_trainings) |->
            ExistingTraining(same_day_trainings[i].training)]]

\* --------------------------------------------------- the loops of the rules
\* variant: no continue after the duplicate finding
RECURSIVE overlap_loop_no_continue(_, _, _, _)
overlap_loop_no_continue(tid, target, regs, i) ==
    IF i > Len(regs) THEN << >>
    ELSE LET t == regs[i].training
             found ==
                IF t = None THEN << >>
                ELSE (IF t.id = tid THEN << DuplicateRegistration(t) >> ELSE << >>)
                     \o (IF check_time_overlap(target.start_date, target.end_date,
                                               t.start_date, t.end_date)
                         THEN << ScheduleOverlap(t) >>
                         ELSE << >>)
         IN  found \o overlap_loop_no_continue(tid, target, regs, i + 1)

\* variant: the loop ends at the first commitment that gives a finding
RECURSIVE overlap_loop_first_only(_, _, _, _)
overlap_loop_first_only(tid, target, regs, i) ==
    IF i > Len(regs) THEN << >>
    ELSE LET t == regs[i].training
             found ==
                IF t = None THEN << >>
                ELSE IF t.id = tid THEN << DuplicateRegistration(t) >>
                ELSE IF check_time_overlap(target.start_date, target.end_date,
                                           t.start_date, t.end_date)
                     THEN << ScheduleOverlap(t) >>
                     ELSE << >>
         IN  IF found # << >> THEN found
             ELSE overlap_loop_first_only(tid, target, regs, i + 1)

\* detect_schedule_conflicts, the for loop: duplicate and overlap findings
RECURSIVE overlap_loop(_, _, _, _)
overlap_loop(tid, target, regs, i) ==
    IF i > Len(regs) THEN << >>
    ELSE LET t == regs[i].training
             found ==
                IF t = None THEN << >>
                ELSE IF t.id = tid THEN << DuplicateRegistration(t) >>
                ELSE IF check_time_overlap(target.start_date, target.end_date,
                                           t.start_date, t.end_date)
                     THEN << ScheduleOverlap(t) >>
                     ELSE << >>
         IN  found \o overlap_loop(tid, target, regs, i + 1)

\* _check_location_conflicts, the for loop: travel-time findings
RECURSIVE location_loop(_, _, _)
location_loop(target, regs, i) ==
    IF i > Len(regs) THEN << >>
    ELSE LET t == regs[i].training
             location1 == target.location
             location2 == t.location
             travel_time == travel_time_lookup(location1, location2)
             found ==
                IF t = None THEN << >>
                ELSE IF /\ travel_time > 0
                        /\ check_insufficient_travel_time(
                               target.start_date, target.end_date,
                               t.start_date, t.end_date, travel_time)
                     THEN << TravelTimeConflict(location1, location2,
                                                travel_time, t) >>
                     ELSE << >>
         IN  found \o location_loop(target, regs, i + 1)

\* _check_same_day_conflicts, the list comprehension and the threshold
same_day_filter(target, reg) ==
    /\ reg.training # None
    /\ date(reg.training.start_date) = date(target.start_date)
    /\ reg.training.id # target.id

\* variant: the warning is due from one same-day training on
same_day_findings_from_one(target, regs) ==
    LET same_day_trainings == SelectSeq(regs, LAMBDA r : same_day_filter(target, r))
    IN  IF Len(same_day_trainings) >= 1
        THEN << SameDayMultiple(date(target.start_date), same_day_trainings) >>
        ELSE << >>

same_day_findings(target, regs) ==
    LET same_day_trainings == SelectSeq(regs, LAMBDA r : same_day_filter(target, r))
    IN  IF Len(same_day_trainings) >= 2
        THEN << SameDayMultiple(date(target.start_date), same_day_trainings) >>
        ELSE << >>

\* ------------------------------------------------------------ initial states
Day(n) == n * MinutesPerDay
HM(h, m) == h * MinutesPerHour + m

\* the intervals a training of the two-training tables may occupy
PairSlots ==
    { << Day(0) + HM(9, 0),   Day(0) + HM(12, 0) >>,
      << Day(0) + HM(10, 0),  Day(0) + HM(11, 0) >>,
      << Day(0) + HM(11, 25), Day(0) + HM(12, 0) >>,
      << Day(0) + HM(11, 30), Day(0) + HM(12, 0) >>,
      << Day(0) + HM(11, 31), Day(0) + HM(12, 0) >>,
      << Day(0) + HM(13, 0),  Day(0) + HM(17, 0) >>,
      << Day(0) + HM(16, 0),  Day(0) + HM(17, 0) >>,
      << Day(0) + HM(20, 0),  Day(0) + HM(23, 50) >>,
      << Day(1) + HM(0, 10),  Day(1) + HM(1, 0) >> }

PairLocations == {"NYC", "Boston", "Dallas", "Remote"}

\* the trainings a table of MaxTrainings trainings is drawn from
LoadRows ==
    { << << Day(0) + HM(10, 0),  Day(0) + HM(11, 0) >>, "NYC" >>,
      << << Day(0) + HM(11, 25), Day(0) + HM(12, 0) >>, "Boston" >>,
      << << Day(0) + HM(13, 0),  Day(0) + HM(17, 0) >>, "NYC" >>,
      << << Day(1) + HM(0, 10),  Day(1) + HM(1, 0) >>,  "Boston" >> }

\* a trainings row; the columns the registration workflow reads are set to
\* a published training with the default capacity and nobody counted
Row(i, slot, loc) ==
    [id |-> i, start_date |-> slot[1], end_date |-> slot[2], location |-> loc,
     status |-> "published", max_participants |-> default_max_participants,
     current_participants |-> 0]

Tables(n, rows) ==
    { [i \in 1..n |-> Row(i, f[i][1], f[i][2])] : f \in [1..n -> rows] }

RegRows(ids, statuses) ==
    [user_id : Users, training_id : ids, status : statuses, is_active : {TRUE}]

RegTables(ids, statuses, n) ==
    UNION { [1..k -> RegRows(ids, statuses)] : k \in 0..n }

\* two trainings with any of the intervals and locations, and few
\* registrations, pending or confirmed
InitPair ==
    /\ trainings \in Tables(2, PairSlots \X PairLocations)
    /\ registrations \in
          RegTables(DOMAIN trainings, {"pending", "confirmed"}, MaxPairRegs)

\* MaxTrainings trainings and up to MaxRegs confirmed registrations
InitLoad ==
    /\ trainings \in Tables(MaxTrainings, LoadRows)
    /\ registrations \in RegTables(DOMAIN trainings, {"confirmed"}, MaxRegs)

\* the users table: the columns authentication reads
Passwords == {"secret", "other"}
username_of(uid) == << "user", uid >>
\* get_password_hash, and verify_password on a stored hash
get_password_hash(password) == << "hash", password >>
verify_password(plain_password, hashed_password) ==
    hashed_password = get_password_hash(plain_password)

UserRow(uid, password, active) ==
    [id |-> uid, username |-> username_of(uid),
     hashed_password |-> get_password_hash(password), is_active |-> active]

\* every user active, as created
RegisteredUsers == [uid \in Users |-> UserRow(uid, "secret", TRUE)]

\* no conflict check is running
\* a request slot nobody uses; training is the row its session has loaded
RequestSlots == 1..MaxRequests
IdleRequest ==
    [pc |-> "idle", op |-> "none", user |-> 0, arg |-> 0, training_id |-> 0,
     training |-> None, code |-> 0, detail |-> ""]
NoRequests == [r \in RequestSlots |-> IdleRequest]

CheckIdle ==
    /\ pc = "idle"
    /\ user_id = 0
    /\ training_id = 0
    /\ target_training = None
    /\ user_registrations = << >>
    /\ conflicts = << >>
    /\ fetches = << >>

\* no call of the workflow has been answered yet
NoResponse ==
    [op |-> "none", user |-> 0, arg |-> 0, code |-> 0, detail |-> "",
     conflicts |-> << >>, has_conflicts |-> FALSE]

Init ==
    /\ InitPair \/ InitLoad
    /\ CheckIdle
    /\ response = NoResponse
    /\ users = RegisteredUsers
    /\ requests = NoRequests

\* ------------------------------------------------- detect_schedule_conflicts
\* the ids a request may name: every training and one id that resolves to none
RequestIds == DOMAIN trainings \cup {MaxTrainings + 1}

\* variant: the missing training is reported but the check goes on
DetectStart_no_return(uid, tid) ==
    /\ pc = "idle"
    /\ user_id' = uid
    /\ training_id' = tid
    /\ target_training' = training_get(tid)
    /\ user_registrations' = << >>
    /\ fetches' = << >>
    /\ conflicts' = IF training_get(tid) = None THEN << TrainingNotFound >> ELSE << >>
    /\ pc' = "overlap"
    /\ UNCHANGED <<requests, users, response, trainings, registrations>>

\* entry, up to the return of training_crud.get
DetectStart(uid, tid) ==
    /\ pc = "idle"
    /\ user_id' = uid
    /\ training_id' = tid
    /\ target_training' = training_get(tid)
    /\ user_registrations' = << >>
    /\ fetches' = << >>
    /\ IF training_get(tid) = None
       THEN /\ conflicts' = << TrainingNotFound >>
            /\ pc' = "done"
       ELSE /\ conflicts' = << >>
            /\ pc' = "overlap"
    /\ UNCHANGED <<requests, users, response, trainings, registrations>>

\* variant: the check returns as soon as the loop has found an error
DetectOverlap_early_exit ==
    /\ pc = "overlap"
    /\ LET regs == get_confirmed_registrations_for_user(user_id)
           found == overlap_loop(training_id, target_training, regs, 1)
       IN  /\ user_registrations' = regs
           /\ fetches' = Append(fetches, <<"overlap", regs>>)
           /\ conflicts' = conflicts \o found
           /\ pc' = IF found # << >> THEN "done" ELSE "location"
    /\ UNCHANGED <<requests, users, response, trainings, registrations, user_id, training_id, target_training>>

\* the first fetch of the commitments and the duplicate / overlap loop
DetectOverlap ==
    /\ pc = "overlap"
    /\ LET regs == get_confirmed_registrations_for_user(user_id)
       IN  /\ user_registrations' = regs
           /\ fetches' = Append(fetches, <<"overlap", regs>>)
           /\ conflicts' = conflicts \o
                  overlap_loop(training_id, target_training, regs, 1)
    /\ pc' = "location"
    /\ UNCHANGED <<requests, users, response, trainings, registrations, user_id, training_id, target_training>>

\* variant: the travel-time findings are put in front of the report
CheckLocationConflicts_in_front ==
    /\ pc = "location"
    /\ LET regs == get_confirmed_registrations_for_user(user_id)
       IN  /\ user_registrations' = regs
           /\ fetches' = Append(fetches, <<"location", regs>>)
           /\ conflicts' = location_loop(target_training, regs, 1) \o conflicts
    /\ pc' = "same_day"
    /\ UNCHANGED <<requests, users, response, trainings, registrations, user_id, training_id, target_training>>

\* _check_location_conflicts
CheckLocationConflicts ==
    /\ pc = "location"
    /\ LET regs == get_confirmed_registrations_for_user(user_id)
       IN  /\ user_registrations' = regs
           /\ fetches' = Append(fetches, <<"location", regs>>)
           /\ conflicts' = conflicts \o location_loop(target_training, regs, 1)
    /\ pc' = "same_day"
    /\ UNCHANGED <<requests, users, response, trainings, registrations, user_id, training_id, target_training>>

\* _check_same_day_conflicts
CheckSameDayConflicts ==
    /\ pc = "same_day"
    /\ LET regs == get_confirmed_registrations_for_user(user_id)
       IN  /\ user_registrations' = regs
           /\ fetches' = Append(fetches, <<"same_day", regs>>)
           /\ conflicts' = conflicts \o same_day_findings(target_training, regs)
    /\ pc' = "done"
    /\ UNCHANGED <<requests, users, response, trainings, registrations, user_id, training_id, target_training>>

\* return conflicts: the locals are gone, the service is ready for the next call
DetectReturn ==
    /\ pc = "done"
    /\ pc' = "idle"
    /\ user_id' = 0
    /\ training_id' = 0
    /\ target_training' = None
    /\ user_registrations' = << >>
    /\ conflicts' = << >>
    /\ fetches' = << >>
    /\ UNCHANGED <<requests, users, response, trainings, registrations>>

Next ==
    \/ \E uid \in Users, tid \in RequestIds : DetectStart(uid, tid)
    \/ DetectOverlap
    \/ CheckLocationConflicts
    \/ CheckSameDayConflicts
    \/ DetectReturn

Spec == Init /\ [][Next]_vars

\* ================================================= the registration workflow
\* Every call below is one action: the whole handler, run to its answer.

AdminUsers == {2}

\* ConflictDetectionService.detect_schedule_conflicts, run to its return: the
\* steps above in one piece, each rule with its own fetch of the commitments
detect_schedule_conflicts(uid, tid) ==
    LET target == training_get(tid)
    IN  IF target = None THEN << TrainingNotFound >>
        ELSE overlap_loop(tid, target, get_confirmed_registrations_for_user(uid), 1)
             \o location_loop(target, get_confirmed_registrations_for_user(uid), 1)
             \o same_day_findings(target, get_confirmed_registrations_for_user(uid))

\* CRUDRegistration.count_registrations_by_training; status "" is no status
count_registrations_by_training(tid, status) ==
    Cardinality({ i \in 1..Len(registrations) :
                    /\ registrations[i].training_id = tid
                    /\ status # "" => registrations[i].status = status })

\* variant: full only above max_participants
check_capacity_strict(tid) ==
    LET training == training_get(tid)
        confirmed_count == count_registrations_by_training(tid, "confirmed")
        active_count == count_registrations_by_training(tid, "")
    IN  IF training = None
        THEN [raised |-> TRUE, confirmed_registrations |-> 0,
              active_registrations |-> 0, is_full |-> FALSE]
        ELSE [raised |-> FALSE, confirmed_registrations |-> confirmed_count,
              active_registrations |-> active_count,
              is_full |-> confirmed_count > training.max_participants]

\* CRUDRegistration.check_capacity; raised is its ValueError
check_capacity(tid) ==
    LET training == training_get(tid)
        confirmed_count == count_registrations_by_training(tid, "confirmed")
        active_count == count_registrations_by_training(tid, "")
    IN  IF training = None
        THEN [raised |-> TRUE, confirmed_registrations |-> 0,
              active_registrations |-> 0, is_full |-> FALSE]
        ELSE [raised |-> FALSE, confirmed_registrations |-> confirmed_count,
              active_registrations |-> active_count,
              is_full |-> confirmed_count >= training.max_participants]

TrainingFull == [type |-> "training_full", severity |-> "error"]

\* ConflictDetectionService.validate_registration_prerequisites: the list it
\* returns, or Raised when check_capacity raises
Raised == << [type |-> "raised", severity |-> "error"] >>

validate_registration_prerequisites(uid, tid) ==
    IF training_get(tid) = None THEN << TrainingNotFound >>
    ELSE IF check_capacity(tid).raised THEN Raised
    ELSE IF check_capacity(tid).is_full THEN << TrainingFull >>
    ELSE << >>

\* variant: only a confirmed registration counts as existing
get_user_registration_for_training_confirmed(uid, tid) ==
    { i \in 1..Len(registrations) :
        /\ registrations[i].user_id = uid
        /\ registrations[i].training_id = tid
        /\ registrations[i].status = "confirmed"
        /\ registrations[i].is_active = TRUE }

\* CRUDRegistration.get_user_registration_for_training: the rows it selects
get_user_registration_for_training(uid, tid) ==
    { i \in 1..Len(registrations) :
        /\ registrations[i].user_id = uid
        /\ registrations[i].training_id = tid
        /\ registrations[i].is_active = TRUE }

\* CRUDBase.get on the registrations table: the row number, or 0
registration_get(rid) == IF rid \in 1..Len(registrations) THEN rid ELSE 0

\* CRUDTraining.update_participant_count
update_participant_count(table, tid, increment) ==
    IF tid \in DOMAIN table
    THEN [table EXCEPT ![tid].current_participants = @ + increment]
    ELSE table

\* variant: the flag of the report is always set
Answer_always_flagged(op, uid, arg, code, detail, found) ==
    [op |-> op, user |-> uid, arg |-> arg, code |-> code, detail |-> detail,
     conflicts |-> found, has_conflicts |-> TRUE]

Answer(op, uid, arg, code, detail, found) ==
    [op |-> op, user |-> uid, arg |-> arg, code |-> code, detail |-> detail,
     conflicts |-> found, has_conflicts |-> Len(found) > 0]

\* variant: the findings list is kept between calls and grows
CheckRegistrationConflicts_accumulating(uid, tid) ==
    /\ pc = "idle"
    /\ response' =
          IF training_get(tid) = None
          THEN Answer("check_conflicts", uid, tid, 404, "Training not found", << >>)
          ELSE Answer("check_conflicts", uid, tid, 200, "",
                      response.conflicts \o detect_schedule_conflicts(uid, tid))
    /\ UNCHANGED <<requests, users, trainings, registrations, pc, user_id, training_id,
                   target_training, user_registrations, conflicts, fetches>>

\* POST /{training_id}/check-conflicts
CheckRegistrationConflicts(uid, tid) ==
    /\ pc = "idle"
    /\ response' =
          IF training_get(tid) = None
          THEN Answer("check_conflicts", uid, tid, 404, "Training not found", << >>)
          ELSE Answer("check_conflicts", uid, tid, 200, "",
                      detect_schedule_conflicts(uid, tid))
    /\ UNCHANGED <<requests, users, trainings, registrations, pc, user_id, training_id,
                   target_training, user_registrations, conflicts, fetches>>

\* variant: the validation writes the confirmed count back to the training
ValidateRegistrationPrerequisites_refreshing(uid, tid) ==
    /\ pc = "idle"
    /\ LET issues == validate_registration_prerequisites(uid, tid)
       IN  response' =
              IF issues = Raised
              THEN Answer("validate", uid, tid, 500, "Training not found", << >>)
              ELSE Answer("validate", uid, tid, 200, "", issues)
    /\ trainings' =
          IF tid \in DOMAIN trainings
          THEN [trainings EXCEPT ![tid].current_participants =
                   check_capacity(tid).confirmed_registrations]
          ELSE trainings
    /\ UNCHANGED <<requests, users, registrations, pc, user_id, training_id,
                   target_training, user_registrations, conflicts, fetches>>

\* a call of conflict_service.validate_registration_prerequisites
ValidateRegistrationPrerequisites(uid, tid) ==
    /\ pc = "idle"
    /\ LET issues == validate_registration_prerequisites(uid, tid)
       IN  response' =
              IF issues = Raised
              THEN Answer("validate", uid, tid, 500, "Training not found", << >>)
              ELSE Answer("validate", uid, tid, 200, "", issues)
    /\ UNCHANGED <<requests, users, trainings, registrations, pc, user_id, training_id,
                   target_training, user_registrations, conflicts, fetches>>

\* variant: the registration is created without looking at the conflict report
RegisterForTraining_unchecked(uid, tid) ==
    /\ pc = "idle"
    /\ Len(registrations) < MaxFlowRegs
    /\ LET training == training_get(tid)
       IN  IF training = None
           THEN /\ response' = Answer("register", uid, tid, 404,
                                      "Training not found", << >>)
                /\ UNCHANGED <<trainings, registrations>>
           ELSE IF training.status # "published"
           THEN /\ response' = Answer("register", uid, tid, 400,
                                      "Training is not open for registration", << >>)
                /\ UNCHANGED <<trainings, registrations>>
           ELSE IF check_capacity(tid).is_full
           THEN /\ response' = Answer("register", uid, tid, 409,
                                      "Training is full", << >>)
                /\ UNCHANGED <<trainings, registrations>>
           ELSE IF get_user_registration_for_training(uid, tid) # {}
           THEN /\ response' = Answer("register", uid, tid, 400,
                                      "User is already registered for this training",
                                      << >>)
                /\ UNCHANGED <<trainings, registrations>>
           ELSE /\ registrations' = Append(registrations,
                       [user_id |-> uid, training_id |-> tid,
                        status |-> "pending", is_active |-> TRUE])
                /\ trainings' = update_participant_count(trainings, tid, 1)
                /\ response' = Answer("register", uid, tid, 200, "registered", << >>)
    /\ UNCHANGED <<requests, users, pc, user_id, training_id, target_training,
                   user_registrations, conflicts, fetches>>

\* POST /{training_id}/register
RegisterForTraining(uid, tid) ==
    /\ pc = "idle"
    /\ Len(registrations) < MaxFlowRegs
    /\ LET training == training_get(tid)
           found == detect_schedule_conflicts(uid, tid)
       IN  IF training = None
           THEN /\ response' = Answer("register", uid, tid, 404,
                                      "Training not found", << >>)
                /\ UNCHANGED <<trainings, registrations>>
           ELSE IF training.status # "published"
           THEN /\ response' = Answer("register", uid, tid, 400,
                                      "Training is not open for registration", << >>)
                /\ UNCHANGED <<trainings, registrations>>
           ELSE IF check_capacity(tid).is_full
           THEN /\ response' = Answer("register", uid, tid, 409,
                                      "Training is full", << >>)
                /\ UNCHANGED <<trainings, registrations>>
           ELSE IF found # << >>
           THEN /\ response' = Answer("register", uid, tid, 200,
                                      "conflict_detected", found)
                /\ UNCHANGED <<trainings, registrations>>
           ELSE IF get_user_registration_for_training(uid, tid) # {}
           THEN /\ response' = Answer("register", uid, tid, 400,
                                      "User is already registered for this training",
                                      << >>)
                /\ UNCHANGED <<trainings, registrations>>
           ELSE /\ registrations' = Append(registrations,
                       [user_id |-> uid, training_id |-> tid,
                        status |-> "pending", is_active |-> TRUE])
                /\ trainings' = update_participant_count(trainings, tid, 1)
                /\ response' = Answer("register", uid, tid, 200, "registered", << >>)
    /\ UNCHANGED <<requests, users, pc, user_id, training_id, target_training,
                   user_registrations, conflicts, fetches>>

\* CRUDRegistration.confirm_registration
confirm_registration(table, rid) ==
    [table EXCEPT ![rid].status = "confirmed"]

\* POST /{registration_id}/confirm; only an admin passes get_current_admin_user
confirm_registration_endpoint(uid, rid) ==
    /\ IF uid \notin AdminUsers
       THEN /\ response' = Answer("confirm", uid, rid, 403,
                                  "Insufficient permissions", << >>)
            /\ UNCHANGED registrations
       ELSE IF registration_get(rid) = 0
       THEN /\ response' = Answer("confirm", uid, rid, 404,
                                  "Registration not found", << >>)
            /\ UNCHANGED registrations
       ELSE /\ registrations' = confirm_registration(registrations, rid)
            /\ response' = Answer("confirm", uid, rid, 200, "confirmed", << >>)
    /\ UNCHANGED <<requests, users, trainings>>

ConfirmRegistration(uid, rid) ==
    /\ pc = "idle"
    /\ confirm_registration_endpoint(uid, rid)
    /\ UNCHANGED <<pc, user_id, training_id, target_training,
                   user_registrations, conflicts, fetches>>

\* variant: cancelling puts the registration back to pending
cancel_registration_reopening(table, rid) ==
    [table EXCEPT ![rid].status = "pending"]

\* CRUDRegistration.cancel_registration
cancel_registration(table, rid) ==
    [table EXCEPT ![rid].status = "cancelled"]

\* POST /{registration_id}/cancel
cancel_registration_endpoint(uid, rid) ==
    /\ IF registration_get(rid) = 0
       THEN /\ response' = Answer("cancel", uid, rid, 404,
                                  "Registration not found", << >>)
            /\ UNCHANGED <<trainings, registrations>>
       ELSE IF uid # registrations[rid].user_id /\ uid \notin AdminUsers
       THEN /\ response' = Answer("cancel", uid, rid, 403,
                                  "Not authorized to cancel this registration", << >>)
            /\ UNCHANGED <<trainings, registrations>>
       ELSE /\ trainings[registrations[rid].training_id].current_participants
                  > 0 - MaxDeficit
            /\ registrations' = cancel_registration(registrations, rid)
            /\ trainings' = update_participant_count(
                                trainings, registrations[rid].training_id, -1)
            /\ response' = Answer("cancel", uid, rid, 200, "cancelled", << >>)
    /\ UNCHANGED <<requests, users>>

CancelRegistration(uid, rid) ==
    /\ pc = "idle"
    /\ cancel_registration_endpoint(uid, rid)
    /\ UNCHANGED <<pc, user_id, training_id, target_training,
                   user_registrations, conflicts, fetches>>

\* two trainings, the second one either within the first one's buffer or on
\* the next day, each a draft or published; the first has one place, the
\* second MaxParticipants places
FlowSecond ==
    { << << Day(0) + HM(11, 25), Day(0) + HM(12, 0) >>, "Boston" >>,
      << << Day(1) + HM(0, 10),  Day(1) + HM(1, 0) >>,  "Boston" >> }

FlowTables ==
    { [i \in 1..2 |->
         [ (IF i = 1
            THEN Row(1, << Day(0) + HM(10, 0), Day(0) + HM(11, 0) >>, "NYC")
            ELSE Row(2, second[1], second[2]))
           EXCEPT !.status = st[i],
                  !.max_participants = IF i = 1 THEN 1 ELSE MaxParticipants ]]
      : second \in FlowSecond, st \in [1..2 -> {"draft", "published"}] }

InitFlow ==
    /\ trainings \in FlowTables
    /\ registrations = << >>
    /\ CheckIdle
    /\ response = NoResponse
    /\ users = RegisteredUsers
    /\ requests = NoRequests

RegistrationIds == 1..(Len(registrations) + 1)

NextFlow ==
    \/ \E uid \in Users, tid \in RequestIds : CheckRegistrationConflicts(uid, tid)
    \/ \E uid \in Users, tid \in RequestIds : ValidateRegistrationPrerequisites(uid, tid)
    \/ \E uid \in Users, tid \in RequestIds : RegisterForTraining(uid, tid)
    \/ \E uid \in Users, rid \in RegistrationIds : ConfirmRegistration(uid, rid)
    \/ \E uid \in Users, rid \in RegistrationIds : CancelRegistration(uid, rid)

SpecFlow == InitFlow /\ [][NextFlow]_vars

\* ================================================ the training's lifecycle
TrainingStatus == {"draft", "published", "cancelled", "completed"}

\* the field of a TrainingUpdate that the request leaves unset
Unset == "unset"

\* the requests' bodies: a TrainingCreate (schedule and location; it has no
\* status field) and a TrainingUpdate (status and location, each optional)
TrainingCreates == FlowSecond
TrainingUpdates == [status : TrainingStatus \cup {Unset}, location : {Unset, "Dallas"}]

\* CRUDBase.create on the trainings table, the column defaults filled in
training_create(table, obj_in) ==
    Append(table,
           [id |-> Len(table) + 1,
            start_date |-> obj_in[1][1], end_date |-> obj_in[1][2],
            location |-> obj_in[2],
            status |-> "draft",
            max_participants |-> default_max_participants,
            current_participants |-> 0])

\* CRUDBase.update: setattr for every field the request sets
training_update(table, tid, obj_in) ==
    [table EXCEPT
       ![tid].status = IF obj_in.status = Unset THEN @ ELSE obj_in.status,
       ![tid].location = IF obj_in.location = Unset THEN @ ELSE obj_in.location]

\* POST /trainings/
CreateTraining(uid, obj_in) ==
    /\ pc = "idle"
    /\ Len(trainings) < MaxCreated
    /\ IF uid \notin AdminUsers
       THEN /\ response' = Answer("create_training", uid, 0, 403,
                                  "Insufficient permissions", << >>)
            /\ UNCHANGED trainings
       ELSE /\ trainings' = training_create(trainings, obj_in)
            /\ response' = Answer("create_training", uid, Len(trainings) + 1, 201,
                                  "Training created successfully", << >>)
    /\ UNCHANGED <<requests, users, registrations, pc, user_id, training_id, target_training,
                   user_registrations, conflicts, fetches>>

\* PUT /trainings/{training_id}
UpdateTraining(uid, tid, obj_in) ==
    /\ pc = "idle"
    /\ IF uid \notin AdminUsers
       THEN /\ response' = Answer("update_training", uid, tid, 403,
                                  "Insufficient permissions", << >>)
            /\ UNCHANGED trainings
       ELSE IF training_get(tid) = None
       THEN /\ response' = Answer("update_training", uid, tid, 404,
                                  "Training not found", << >>)
            /\ UNCHANGED trainings
       ELSE /\ trainings' = training_update(trainings, tid, obj_in)
            /\ response' = Answer("update_training", uid, tid, 200,
                                  "Training updated successfully", << >>)
    /\ UNCHANGED <<requests, users, registrations, pc, user_id, training_id, target_training,
                   user_registrations, conflicts, fetches>>

\* POST /trainings/{training_id}/publish
PublishTraining(uid, tid) ==
    /\ pc = "idle"
    /\ IF uid \notin AdminUsers
       THEN /\ response' = Answer("publish_training", uid, tid, 403,
                                  "Insufficient permissions", << >>)
            /\ UNCHANGED trainings
       ELSE IF training_get(tid) = None
       THEN /\ response' = Answer("publish_training", uid, tid, 404,
                                  "Training not found", << >>)
            /\ UNCHANGED trainings
       ELSE IF training_get(tid).status = "published"
       THEN /\ response' = Answer("publish_training", uid, tid, 400,
                                  "Training is already published", << >>)
            /\ UNCHANGED trainings
       ELSE /\ trainings' = [trainings EXCEPT ![tid].status = "published"]
            /\ response' = Answer("publish_training", uid, tid, 200,
                                  "Training published successfully", << >>)
    /\ UNCHANGED <<requests, users, registrations, pc, user_id, training_id, target_training,
                   user_registrations, conflicts, fetches>>

\* no training yet, nobody registered
InitTraining ==
    /\ trainings = << >>
    /\ registrations = << >>
    /\ CheckIdle
    /\ response = NoResponse
    /\ users = RegisteredUsers
    /\ requests = NoRequests

TrainingIds == 1..(Len(trainings) + 1)

NextTraining ==
    \/ \E uid \in Users, obj_in \in TrainingCreates : CreateTraining(uid, obj_in)
    \/ \E uid \in Users, tid \in TrainingIds, obj_in \in TrainingUpdates :
          UpdateTraining(uid, tid, obj_in)
    \/ \E uid \in Users, tid \in TrainingIds : PublishTraining(uid, tid)

SpecTraining == InitTraining /\ [][NextTraining]_vars

\* ===================================== a conflict check among other requests
\* the check's steps, one per query, with the confirm and cancel calls of
\* other requests running between them
ConfirmDuringCheck(uid, rid) ==
    /\ pc \in {"overlap", "location", "same_day"}
    /\ rid \in 1..Len(registrations)
    /\ confirm_registration_endpoint(uid, rid)
    /\ UNCHANGED <<pc, user_id, training_id, target_training,
                   user_registrations, conflicts, fetches>>

CancelDuringCheck(uid, rid) ==
    /\ pc \in {"overlap", "location", "same_day"}
    /\ rid \in 1..Len(registrations)
    /\ cancel_registration_endpoint(uid, rid)
    /\ UNCHANGED <<pc, user_id, training_id, target_training,
                   user_registrations, conflicts, fetches>>

\* two trainings and few registrations, pending or confirmed
InitSnapshot ==
    /\ trainings \in Tables(2, LoadRows)
    /\ registrations \in
          RegTables(DOMAIN trainings, {"pending", "confirmed"}, MaxPairRegs)
    /\ CheckIdle
    /\ response = NoResponse
    /\ users = RegisteredUsers
    /\ requests = NoRequests

NextSnapshot ==
    \/ \E uid \in Users, tid \in DOMAIN trainings : DetectStart(uid, tid)
    \/ DetectOverlap
    \/ CheckLocationConflicts
    \/ CheckSameDayConflicts
    \/ DetectReturn
    \/ \E rid \in 1..Len(registrations) : ConfirmDuringCheck(2, rid)
    \/ \E rid \in 1..Len(registrations) :
          CancelDuringCheck(registrations[rid].user_id, rid)

SpecSnapshot == InitSnapshot /\ [][NextSnapshot]_vars

\* ================================================ requests that interleave
\* register and cancel calls of several requests, one step per database
\* round trip; every request has its own session (get_async_db), and a
\* session made with expire_on_commit=False keeps the rows it has loaded
Answered(req, code, detail) ==
    [req EXCEPT !.pc = "done", !.code = code, !.detail = detail]

\* register_for_training: training_crud.get and the published test
RegisterLoad(r, uid, tid) ==
    /\ requests[r].pc = "idle"
    /\ LET training == training_get(tid)
           req == [requests[r] EXCEPT !.op = "register", !.user = uid,
                                      !.arg = tid, !.training_id = tid,
                                      !.training = training]
       IN  requests' = [requests EXCEPT ![r] =
              IF training = None
              THEN Answered(req, 404, "Training not found")
              ELSE IF training.status # "published"
              THEN Answered(req, 400, "Training is not open for registration")
              ELSE [req EXCEPT !.pc = "capacity"]]
    /\ UNCHANGED <<trainings, registrations, response, users, pc, user_id,
                   training_id, target_training, user_registrations,
                   conflicts, fetches>>

\* register_for_training: check_capacity
RegisterCapacity(r) ==
    /\ requests[r].pc = "capacity"
    /\ LET req == requests[r]
       IN  requests' = [requests EXCEPT ![r] =
              IF check_capacity(req.arg).is_full
              THEN Answered(req, 409, "Training is full")
              ELSE [req EXCEPT !.pc = "conflicts"]]
    /\ UNCHANGED <<trainings, registrations, response, users, pc, user_id,
                   training_id, target_training, user_registrations,
                   conflicts, fetches>>

\* register_for_training: detect_schedule_conflicts
RegisterConflicts(r) ==
    /\ requests[r].pc = "conflicts"
    /\ LET req == requests[r]
       IN  requests' = [requests EXCEPT ![r] =
              IF detect_schedule_conflicts(req.user, req.arg) # << >>
              THEN Answered(req, 200, "conflict_detected")
              ELSE [req EXCEPT !.pc = "existing"]]
    /\ UNCHANGED <<trainings, registrations, response, users, pc, user_id,
                   training_id, target_training, user_registrations,
                   conflicts, fetches>>

\* CRUDRegistration.create: the look-up of an existing registration
RegisterExisting(r) ==
    /\ requests[r].pc = "existing"
    /\ LET req == requests[r]
       IN  requests' = [requests EXCEPT ![r] =
              IF get_user_registration_for_training(req.user, req.arg) # {}
              THEN Answered(req, 400, "User is already registered for this training")
              ELSE [req EXCEPT !.pc = "insert"]]
    /\ UNCHANGED <<trainings, registrations, response, users, pc, user_id,
                   training_id, target_training, user_registrations,
                   conflicts, fetches>>

\* CRUDRegistration.create: db.add and commit
RegisterInsert(r) ==
    /\ requests[r].pc = "insert"
    /\ registrations' = Append(registrations,
           [user_id |-> requests[r].user, training_id |-> requests[r].arg,
            status |-> "pending", is_active |-> TRUE])
    /\ requests' = [requests EXCEPT ![r].pc = "count"]
    /\ UNCHANGED <<trainings, response, users, pc, user_id,
                   training_id, target_training, user_registrations,
                   conflicts, fetches>>

\* update_participant_count on the row a session holds: the new value is
\* computed from the loaded one and written by the commit
write_participant_count(table, training, increment) ==
    [table EXCEPT ![training.id].current_participants =
                      training.current_participants + increment]

\* register_for_training: update_participant_count(db, training_id, 1); the
\* session loaded the training in RegisterLoad and gets that row again
RegisterCount(r) ==
    /\ requests[r].pc = "count"
    /\ trainings' = write_participant_count(trainings, requests[r].training, 1)
    /\ requests' = [requests EXCEPT ![r] = Answered(@, 200, "registered")]
    /\ UNCHANGED <<registrations, response, users, pc, user_id,
                   training_id, target_training, user_registrations,
                   conflicts, fetches>>

\* cancel_registration: registration_crud.get and the permission test
CancelLoad(r, uid, rid) ==
    /\ requests[r].pc = "idle"
    /\ LET req == [requests[r] EXCEPT !.op = "cancel", !.user = uid, !.arg = rid]
       IN  requests' = [requests EXCEPT ![r] =
              IF registration_get(rid) = 0
              THEN Answered(req, 404, "Registration not found")
              ELSE IF uid # registrations[rid].user_id /\ uid \notin AdminUsers
              THEN Answered(req, 403, "Not authorized to cancel this registration")
              ELSE [req EXCEPT !.pc = "cancel",
                               !.training_id = registrations[rid].training_id]]
    /\ UNCHANGED <<trainings, registrations, response, users, pc, user_id,
                   training_id, target_training, user_registrations,
                   conflicts, fetches>>

\* cancel_registration: CRUDRegistration.cancel_registration
CancelSet(r) ==
    /\ requests[r].pc = "cancel"
    /\ registrations' = cancel_registration(registrations, requests[r].arg)
    /\ requests' = [requests EXCEPT ![r].pc = "count_read"]
    /\ UNCHANGED <<trainings, response, users, pc, user_id,
                   training_id, target_training, user_registrations,
                   conflicts, fetches>>

\* update_participant_count(db, training_id, -1): the session has not seen
\* the training yet, self.get loads it
CancelCountRead(r) ==
    /\ requests[r].pc = "count_read"
    /\ requests' = [requests EXCEPT ![r].pc = "count_write",
                                    ![r].training = training_get(requests[r].training_id)]
    /\ UNCHANGED <<trainings, registrations, response, users, pc, user_id,
                   training_id, target_training, user_registrations,
                   conflicts, fetches>>

\* update_participant_count(db, training_id, -1): the decrement and commit
CancelCountWrite(r) ==
    /\ requests[r].pc = "count_write"
    /\ trainings' = write_participant_count(trainings, requests[r].training, -1)
    /\ requests' = [requests EXCEPT ![r] = Answered(@, 200, "cancelled")]
    /\ UNCHANGED <<registrations, response, users, pc, user_id,
                   training_id, target_training, user_registrations,
                   conflicts, fetches>>

\* two trainings, nobody registered, no request yet
InitRequests ==
    /\ trainings \in FlowTables
    /\ registrations = << >>
    /\ CheckIdle
    /\ response = NoResponse
    /\ users = RegisteredUsers
    /\ requests = NoRequests

NextRequests ==
    \/ \E r \in RequestSlots, uid \in Users, tid \in RequestIds :
          RegisterLoad(r, uid, tid)
    \/ \E r \in RequestSlots : RegisterCapacity(r)
    \/ \E r \in RequestSlots : RegisterConflicts(r)
    \/ \E r \in RequestSlots : RegisterExisting(r)
    \/ \E r \in RequestSlots : RegisterInsert(r)
    \/ \E r \in RequestSlots : RegisterCount(r)
    \/ \E r \in RequestSlots, uid \in Users, rid \in RegistrationIds :
          CancelLoad(r, uid, rid)
    \/ \E r \in RequestSlots : CancelSet(r)
    \/ \E r \in RequestSlots : CancelCountRead(r)
    \/ \E r \in RequestSlots : CancelCountWrite(r)

SpecRequests == InitRequests /\ [][NextRequests]_vars

\* ============================================================ authentication
\* CRUDUser.get_by_username: the row's id, or 0
get_by_username(username) ==
    IF \E uid \in DOMAIN users : users[uid].username = username
    THEN CHOOSE uid \in DOMAIN users : users[uid].username = username
    ELSE 0

\* CRUDUser.authenticate: the id of the user it returns, 0 for None
authenticate(username, password) ==
    LET user == get_by_username(username)
    IN  IF user = 0 THEN 0
        ELSE IF ~verify_password(password, users[user].hashed_password) THEN 0
        ELSE user

\* what a call of authenticate was given and what it returned
AuthAnswer(username, password, user) ==
    [op |-> "authenticate", user |-> 0, arg |-> user, code |-> 200,
     detail |-> "", conflicts |-> << >>, has_conflicts |-> FALSE,
     username |-> username, password |-> password]

\* a call of user_crud.authenticate
Authenticate(username, password) ==
    /\ pc = "idle"
    /\ response' = AuthAnswer(username, password, authenticate(username, password))
    /\ UNCHANGED <<requests, users, trainings, registrations, pc, user_id, training_id,
                   target_training, user_registrations, conflicts, fetches>>

\* CRUDUser.update with a UserUpdate that sets is_active
UpdateUserActive(uid, active) ==
    /\ pc = "idle"
    /\ uid \in DOMAIN users
    /\ users' = [users EXCEPT ![uid].is_active = active]
    /\ response' = Answer("update_user", 0, uid, 200, "", << >>)
    /\ UNCHANGED <<requests, trainings, registrations, pc, user_id, training_id,
                   target_training, user_registrations, conflicts, fetches>>

\* the users with any password, active or not; no training, nobody registered
InitAuth ==
    /\ users \in { [uid \in Users |-> UserRow(uid, pw[uid], act[uid])] :
                     pw \in [Users -> Passwords], act \in [Users -> BOOLEAN] }
    /\ trainings = << >>
    /\ registrations = << >>
    /\ CheckIdle
    /\ response = NoResponse
    /\ requests = NoRequests

Usernames == { username_of(uid) : uid \in Users \cup {0} }

NextAuth ==
    \/ \E username \in Usernames, password \in Passwords :
          Authenticate(username, password)
    \/ \E uid \in Users, active \in BOOLEAN : UpdateUserActive(uid, active)

SpecAuth == InitAuth /\ [][NextAuth]_vars

\* ==================================================================== claims
\* The report is read when the check is about to return it.
Returning == pc = "done"
CandidateExists == training_id \in DOMAIN trainings
Candidate == trainings[training_id]

\* the user's confirmed commitments, as rows of the registrations table
Commitments ==
    { i \in 1..Len(registrations) :
        /\ registrations[i].user_id = user_id
        /\ registrations[i].status = "confirmed"
        /\ registrations[i].is_active }
CommitmentTraining(i) == trainings[registrations[i].training_id]
CommitmentsFor(tid) == { i \in Commitments : registrations[i].training_id = tid }

\* the training a finding refers to
Referenced(f) ==
    IF f.type = "duplicate_registration" THEN f.training.id
    ELSE IF f.type \in {"schedule_overlap", "travel_time_conflict"}
         THEN f.conflicting_training.id
         ELSE 0
FindingsAbout(ty, tid) ==
    { k \in 1..Len(conflicts) : conflicts[k].type = ty /\ Referenced(conflicts[k]) = tid }
FindingsOfType(ty) == { k \in 1..Len(conflicts) : conflicts[k].type = ty }

\* C1: a candidate id that resolves to no training gives a report of exactly
\* one finding, training_not_found with severity error, and no rule has run
\* (no commitment list was fetched), whatever the user's commitments are.
C1_TrainingNotFoundOnly ==
    (Returning /\ ~CandidateExists) =>
        /\ Len(conflicts) = 1
        /\ conflicts[1].type = "training_not_found"
        /\ conflicts[1].severity = "error"
        /\ fetches = << >>

C1_Witness ==
    /\ Returning
    /\ ~CandidateExists
    /\ Commitments # {}

\* C2: with no confirmed commitment of the user, the report of an existing
\* candidate has no findings and has_conflicts is false.
has_conflicts == Len(conflicts) > 0

C2_NoCommitmentsEmptyReport ==
    (Returning /\ CandidateExists /\ Commitments = {}) =>
        (conflicts = << >> /\ ~has_conflicts)

C2_Witness ==
    /\ Returning
    /\ CandidateExists
    /\ Commitments = {}
    /\ \E i \in 1..Len(registrations) :
          /\ registrations[i].training_id # training_id
          /\ \/ registrations[i].user_id # user_id
             \/ registrations[i].status # "confirmed"
          /\ trainings[registrations[i].training_id].start_date < Candidate.end_date
          /\ trainings[registrations[i].training_id].end_date > Candidate.start_date

BufferedOverlap(c, t) ==
    /\ c.start_date - 30 < t.end_date
    /\ c.end_date + 30 > t.start_date

RequiredTravelHours(l1, l2) ==
    CASE {l1, l2} = {"NYC", "Boston"} -> 4
      [] {l1, l2} = {"NYC", "Dallas"} -> 6
      [] {l1, l2} = {"Boston", "Dallas"} -> 8
      [] OTHER -> 0

SameStartDate(c, t) == (c.start_date \div 1440) = (t.start_date \div 1440)

GapTooShort(c, t, hours) ==
    \/ c.end_date < t.start_date /\ t.start_date - c.end_date < (hours + 1) * 60
    \/ t.end_date < c.start_date /\ c.start_date - t.end_date < (hours + 1) * 60

RawOverlapOrTouch(c, t) ==
    ~(c.end_date < t.start_date) /\ ~(t.end_date < c.start_date)

C6_NoTravelAcrossDays ==
    (Returning /\ CandidateExists) =>
        \A i \in Commitments :
            ~SameStartDate(Candidate, CommitmentTraining(i)) =>
                FindingsAbout("travel_time_conflict", CommitmentTraining(i).id) = {}

C6_Witness ==
    /\ Returning
    /\ CandidateExists
    /\ \E i \in Commitments :
          LET t == CommitmentTraining(i)
          IN  /\ ~SameStartDate(Candidate, t)
              /\ RequiredTravelHours(Candidate.location, t.location) > 0
              /\ Candidate.end_date < t.start_date
              /\ t.start_date - Candidate.end_date < 30

\* C7: the travel-time look-up is symmetric, and no travel_time_conflict
\* finding is emitted for a commitment at the candidate's location or for a
\* pair of locations with no travel time defined in either direction.
KnownLocations == {"NYC", "Boston", "Dallas", "Remote", "None"}

TravelTimeDefined(l1, l2) ==
    <<l1, l2>> \in DOMAIN office_travel_times \/ <<l2, l1>> \in DOMAIN office_travel_times

C7_LookupSymmetricAndSkips ==
    Returning =>
      /\ \A l1, l2 \in KnownLocations :
            travel_time_lookup(l1, l2) = travel_time_lookup(l2, l1)
      /\ CandidateExists =>
          \A i \in Commitments :
              LET t == CommitmentTraining(i)
              IN  (\/ t.location = Candidate.location
                   \/ ~TravelTimeDefined(Candidate.location, t.location)) =>
                     FindingsAbout("travel_time_conflict", t.id) = {}

C7_Witness ==
    /\ Returning
    /\ CandidateExists
    /\ \E i \in Commitments :
          LET t == CommitmentTraining(i)
          IN  /\ t.location # Candidate.location
              /\ ~TravelTimeDefined(Candidate.location, t.location)
              /\ SameStartDate(Candidate, t)
              /\ Candidate.end_date < t.start_date
              /\ t.start_date - Candidate.end_date <= 60

\* C8: with n the number of the user's confirmed commitments, other than the
\* candidate, that start on the candidate's start date: n <= 1 gives no
\* same_day_multiple_trainings finding, n >= 2 gives exactly one (warning)
\* that lists exactly those n trainings and states the count n.
SameDayCommitments ==
    { i \in Commitments :
        /\ registrations[i].training_id # training_id
        /\ SameStartDate(Candidate, CommitmentTraining(i)) }

Listed(f, tid) ==
    { j \in 1..Len(f.existing_trainings) : f.existing_trainings[j].id = tid }

DetectionRank(f) ==
    CASE f.type \in {"duplicate_registration", "schedule_overlap"} -> 1
      [] f.type = "travel_time_conflict" -> 2
      [] f.type = "same_day_multiple_trainings" -> 3
      [] OTHER -> 0

C9_DetectionOrder ==
    Returning =>
        \A j, k \in 1..Len(conflicts) :
            j < k => DetectionRank(conflicts[j]) <= DetectionRank(conflicts[k])

C9_Witness ==
    /\ Returning
    /\ FindingsOfType("schedule_overlap") # {}
    /\ FindingsOfType("travel_time_conflict") # {}
    /\ FindingsOfType("same_day_multiple_trainings") # {}

\* C10: no early exit: when errors (duplicate or overlap) were found the
\* report still holds a travel-time finding for every commitment the
\* travel rule applies to and the same-day finding whenever it is due, and
\* every commitment that overlaps is reported, also after an earlier one was.
TravelDue(i) ==
    LET t == CommitmentTraining(i)
        hours == RequiredTravelHours(Candidate.location, t.location)
    IN  /\ hours > 0
        /\ SameStartDate(Candidate, t)
        /\ GapTooShort(Candidate, t, hours)

OverlapDue(i) ==
    /\ registrations[i].training_id # training_id
    /\ BufferedOverlap(Candidate, CommitmentTraining(i))

ErrorsFound ==
    \E k \in 1..Len(conflicts) : conflicts[k].severity = "error"

ReportReturned == response.op = "check_conflicts" /\ response.code = 200
ValidationReturned == response.op = "validate" /\ response.code = 200

\* C11: in every report the check-conflicts call returns, has_conflicts is
\* true exactly when the list of findings is not empty.
C11_HasConflictsIffFindings ==
    ReportReturned => (response.has_conflicts <=> response.conflicts # << >>)

C11_Witness ==
    /\ ReportReturned
    /\ response.has_conflicts
    /\ response.conflicts # << >>
    /\ \E u \in Users, t \in DOMAIN trainings :
          detect_schedule_conflicts(u, t) = << >>

C13_ChecksChangeNothing ==
    [][ response'.op \in {"check_conflicts", "validate"}
        => /\ trainings' = trainings
           /\ registrations' = registrations ]_vars

C13_Witness ==
    /\ ValidationReturned
    /\ response.conflicts = << TrainingFull >>
    /\ detect_schedule_conflicts(response.user, response.arg) # << >>
    /\ \E i \in 1..Len(registrations) : registrations[i].status = "cancelled"

\* the confirmed registrations of a training, as rows of the table
ConfirmedFor(tid) ==
    { i \in 1..Len(registrations) :
        registrations[i].training_id = tid /\ registrations[i].status = "confirmed" }
AtCapacity(tid) ==
    /\ tid \in DOMAIN trainings
    /\ Cardinality(ConfirmedFor(tid)) >= trainings[tid].max_participants
ReportsFull ==
    \E k \in 1..Len(response.conflicts) :
        /\ response.conflicts[k].type = "training_full"
        /\ response.conflicts[k].severity = "error"

\* C14: the prerequisite validation reports training_full (error) exactly when
\* the training exists and its confirmed registrations number at least
\* max_participants, whatever the conflict check gives for the same user and
\* training and whether or not it ran before.
C14_TrainingFullIffAtCapacity ==
    response.op = "validate" => (ReportsFull <=> AtCapacity(response.arg))

C14_Witness ==
    /\ ValidationReturned
    /\ ReportsFull
    /\ \E k \in 1..Len(detect_schedule_conflicts(response.user, response.arg)) :
          detect_schedule_conflicts(response.user, response.arg)[k].type
              = "schedule_overlap"

\* C15: every problem condition reaches the caller of the conflict check and of
\* the prerequisite validation as a finding of the returned list; neither call
\* ends with a raised error, a missing or a full training included.
C15_ProblemsAreFindings ==
    response.op \in {"check_conflicts", "validate"} => response.code = 200

\* the conditions under which register_for_training goes on to create
Registrable(uid, tid) ==
    /\ tid \in DOMAIN trainings
    /\ trainings[tid].status = "published"
    /\ ~AtCapacity(tid)
    /\ detect_schedule_conflicts(uid, tid) = << >>

\* C16: register_for_training creates a registration and adds one to the
\* training's participant count only when the training exists, is published,
\* is not full and the user's conflict report for it is empty; in every other
\* case both tables stay as they were.
C16_RegisterOnlyWhenClear ==
    [][ response'.op = "register" =>
          /\ (registrations' # registrations \/ trainings' # trainings) =>
                /\ Registrable(response'.user, response'.arg)
                /\ registrations' = Append(registrations,
                        [user_id |-> response'.user, training_id |-> response'.arg,
                         status |-> "pending", is_active |-> TRUE])
                /\ trainings' = [trainings EXCEPT
                        ![response'.arg].current_participants = @ + 1]
          /\ ~Registrable(response'.user, response'.arg) =>
                UNCHANGED <<trainings, registrations>> ]_vars

C16_Witness ==
    /\ response.op = "register"
    /\ response.detail = "registered"
    /\ registrations[Len(registrations)].user_id = response.user
    /\ \E i \in 1..Len(registrations) :
          /\ registrations[i].user_id = response.user
          /\ registrations[i].status = "confirmed"
          /\ registrations[i].training_id # response.arg

\* the registrations of the caller of the last call that are confirmed
ConfirmedInto(tid) ==
    \E i \in 1..Len(registrations) :
        /\ registrations[i].user_id = response.user
        /\ registrations[i].training_id = tid
        /\ registrations[i].status = "confirmed"

\* the trainings a finding of a report refers to
ReferencedSet(f) ==
    IF f.type = "same_day_multiple_trainings"
    THEN { f.existing_trainings[j].id : j \in 1..Len(f.existing_trainings) }
    ELSE IF f.type \in {"duplicate_registration", "schedule_overlap",
                        "travel_time_conflict"}
         THEN { Referenced(f) }
         ELSE {}

\* a registration of the caller that is not confirmed, for a training within
\* the buffer of the one asked about
UnconfirmedNearby(st) ==
    \E i \in 1..Len(registrations) :
        /\ registrations[i].user_id = response.user
        /\ registrations[i].status = st
        /\ registrations[i].training_id # response.arg
        /\ check_time_overlap(
              trainings[response.arg].start_date, trainings[response.arg].end_date,
              trainings[registrations[i].training_id].start_date,
              trainings[registrations[i].training_id].end_date)

\* C17: only confirmed registrations count as commitments: every duplicate,
\* overlap, travel-time and same-day finding of a report refers to trainings
\* the user is confirmed into at that moment, so a pending or cancelled
\* registration gives none and a cancelled one is ignored from then on.
C17_OnlyConfirmedCount ==
    response.op \in {"check_conflicts", "register"} =>
        \A k \in 1..Len(response.conflicts) :
            \A tid \in ReferencedSet(response.conflicts[k]) : ConfirmedInto(tid)

C17_Witness ==
    /\ ReportReturned
    /\ response.conflicts = << >>
    /\ UnconfirmedNearby("cancelled")
    /\ \E u \in Users : u # response.user /\
          detect_schedule_conflicts(u, response.arg) # << >>

\* a finding without the order of its same-day listing
Canon(f) ==
    IF f.type = "same_day_multiple_trainings"
    THEN [type |-> f.type, severity |-> f.severity, count |-> f.count,
          training_date |-> f.training_date,
          listed |-> { f.existing_trainings[j] : j \in 1..Len(f.existing_trainings) }]
    ELSE f
\* how often each finding occurs in a report
Occurrences(report) ==
    [ x \in { Canon(report[k]) : k \in 1..Len(report) } |->
        Cardinality({ k \in 1..Len(report) : Canon(report[k]) = x }) ]
\* the orders in which a list of commitments may be supplied
Reorderings(regs) ==
    { [i \in 1..Len(regs) |-> regs[p[i]]] : p \in Permutations(1..Len(regs)) }
\* the report of the three rules on a supplied list of commitments
ReportOn(tid, target, regs) ==
    overlap_loop(tid, target, regs, 1)
    \o location_loop(target, regs, 1)
    \o same_day_findings(target, regs)

\* C18: supplying the user's confirmed commitments in another order gives a
\* report with the same findings (types, severities, referenced trainings);
\* only their order and the order of the same-day listing may differ.
C18_OrderOfCommitmentsIrrelevant ==
    (Returning /\ CandidateExists) =>
        \A regs \in Reorderings(user_registrations) :
            Occurrences(ReportOn(training_id, target_training, regs))
                = Occurrences(conflicts)

C18_Witness ==
    /\ Returning
    /\ CandidateExists
    /\ Cardinality(FindingsOfType("schedule_overlap")) >= 2
    /\ FindingsOfType("same_day_multiple_trainings") # {}
    /\ \E regs \in Reorderings(user_registrations) :
          ReportOn(training_id, target_training, regs) # conflicts

AlreadyRegistered == "User is already registered for this training"

\* the caller of the coming call holds a registration of that status for the
\* training the call names
Holds(statuses) ==
    \E i \in 1..Len(registrations) :
        /\ registrations[i].user_id = response'.user
        /\ registrations[i].training_id = response'.arg
        /\ registrations[i].status \in statuses

\* C19 as stated: a user holding a pending or confirmed registration for a
\* training who registers for it again gets the 400 'already registered'
\* error, and no second registration is created.
C19_SecondRegistrationIs400 ==
    [][ (response'.op = "register" /\ Holds({"pending", "confirmed"})) =>
          /\ response'.code = 400
          /\ response'.detail = AlreadyRegistered
          /\ registrations' = registrations ]_vars

\* C19 as amended: such a user never gets a second registration; the answer is
\* the 400 'already registered' error exactly when the training is published,
\* not full and the user's conflict report for it is empty, and with a
\* confirmed first registration it is the error of an unpublished or a full
\* training or the conflict_detected answer with a duplicate finding.
C19_NoSecondRegistration ==
    [][ (response'.op = "register" /\ Holds({"pending", "confirmed"})) =>
          /\ UNCHANGED <<trainings, registrations>>
          /\ (response'.code = 400 /\ response'.detail = AlreadyRegistered)
                <=> Registrable(response'.user, response'.arg)
          /\ Holds({"confirmed"}) =>
                \/ response'.code = 400
                   /\ response'.detail = "Training is not open for registration"
                \/ response'.code = 409
                \/ /\ response'.code = 200
                   /\ response'.detail = "conflict_detected"
                   /\ \E k \in 1..Len(response'.conflicts) :
                         /\ response'.conflicts[k].type = "duplicate_registration"
                         /\ Referenced(response'.conflicts[k]) = response'.arg ]_vars

C19_Witness ==
    /\ response.op = "register"
    /\ response.detail = "conflict_detected"
    /\ \E k \in 1..Len(response.conflicts) :
          /\ response.conflicts[k].type = "duplicate_registration"
          /\ Referenced(response.conflicts[k]) = response.arg
    /\ \E i \in 1..Len(registrations) :
          /\ registrations[i].user_id = response.user
          /\ registrations[i].training_id = response.arg
          /\ registrations[i].status = "confirmed"
    /\ Len(registrations) = 1

\* the status changes of one step, as pairs of the old and the new status
StatusChanges ==
    { << registrations[i].status, registrations'[i].status >> :
        i \in { j \in 1..Len(registrations) :
                  registrations'[j].status # registrations[j].status } }
CreatedPending ==
    /\ Len(registrations') >= Len(registrations)
    /\ \A i \in (Len(registrations) + 1)..Len(registrations') :
          registrations'[i].status = "pending"

TrainingStatusChanges ==
    { << trainings[i].status, trainings'[i].status >> :
        i \in { j \in 1..Len(trainings) :
                  j <= Len(trainings') /\ trainings'[j].status # trainings[j].status } }
CreatedDraft ==
    /\ Len(trainings') >= Len(trainings)
    /\ \A i \in (Len(trainings) + 1)..Len(trainings') : trainings'[i].status = "draft"
PublishedAgain ==
    /\ response'.op = "publish_training"
    /\ response'.user \in AdminUsers
    /\ response'.arg \in DOMAIN trainings
    /\ trainings[response'.arg].status = "published"

\* C21: every training is created a draft; over create, update and publish
\* calls the only status changes are draft -> published, published ->
\* completed and published -> cancelled; publishing a published training is
\* rejected and leaves it as it is.
C21_TrainingLifecycle ==
    [][ /\ CreatedDraft
        /\ TrainingStatusChanges \subseteq
              { << "draft", "published" >>, << "published", "completed" >>,
                << "published", "cancelled" >> }
        /\ PublishedAgain => (response'.code = 400 /\ trainings' = trainings) ]_vars

\* C22: authenticate returns no user for an inactive account, also when the
\* username exists and the password is right; it returns the user only when
\* the user exists, the password verifies and the account is active.
C22_AuthenticateActiveOnly ==
    response.op = "authenticate" =>
        /\ response.arg # 0 =>
              /\ response.arg \in DOMAIN users
              /\ users[response.arg].username = response.username
              /\ verify_password(response.password,
                                 users[response.arg].hashed_password)
              /\ users[response.arg].is_active
        /\ \A uid \in DOMAIN users :
              (users[uid].username = response.username /\ ~users[uid].is_active)
                 => response.arg = 0

\* C23: one conflict check fetches the candidate training once and the user's
\* confirmed commitments once; the overlap, travel-time and same-day rules
\* fetch nothing of their own.
C23_OneFetchPerCheck ==
    (Returning /\ CandidateExists) =>
        /\ Len(fetches) = 1
        /\ \A k \in 1..Len(fetches) : fetches[k][1] \notin {"location", "same_day"}

\* C24: every rule of one check works on the one snapshot of the commitments
\* taken at its start: also when a registration of the user is confirmed or
\* cancelled while the check runs, the report is the one the three rules give
\* on that one list.
C24_OneSnapshot ==
    (Returning /\ CandidateExists) =>
        conflicts = ReportOn(training_id, target_training, fetches[1][2])

\* C26: whatever was registered, confirmed and cancelled, a training's
\* confirmed registrations never number more than its max_participants.
C26_ConfirmedWithinCapacity ==
    \A tid \in DOMAIN trainings :
        Cardinality(ConfirmedFor(tid)) <= trainings[tid].max_participants

\* two trainings whose schedules overlap under the buffered overlap rule
SchedulesOverlap(tid1, tid2) ==
    check_time_overlap(trainings[tid1].start_date, trainings[tid1].end_date,
                       trainings[tid2].start_date, trainings[tid2].end_date)

\* C27: whatever was registered, confirmed and cancelled, no user holds two
\* confirmed registrations for different trainings whose schedules overlap
\* under the 30-minute-buffer overlap rule.
C27_NoOverlappingConfirmed ==
    \A i, j \in 1..Len(registrations) :
        ( /\ registrations[i].user_id = registrations[j].user_id
          /\ registrations[i].status = "confirmed"
          /\ registrations[j].status = "confirmed"
          /\ registrations[i].training_id # registrations[j].training_id )
        => ~SchedulesOverlap(registrations[i].training_id,
                             registrations[j].training_id)

\* the registrations of a training that are not cancelled
NotCancelledFor(tid) ==
    { i \in 1..Len(registrations) :
        registrations[i].training_id = tid /\ registrations[i].status # "cancelled" }

\* every training's counter is the number of its registrations that are not
\* cancelled, and not negative
CountMatches ==
    \A tid \in DOMAIN trainings :
        /\ trainings[tid].current_participants = Cardinality(NotCancelledFor(tid))
        /\ trainings[tid].current_participants >= 0

\* C28: whatever was registered and cancelled, also the same registration more
\* than once, a training's current_participants is the number of its
\* registrations that are not cancelled, and is never negative: the relation
\* holds at the start and every register and every cancel call keeps it.
C28_CountIsNotCancelled ==
    [][ (CountMatches /\ response'.op \in {"register", "cancel"})
            => CountMatches' ]_vars

\* the one-commitment list of the swapped check: the candidate as commitment
AsCommitment(t) == << [training |-> t] >>

\* C30: for a candidate A and a commitment B, both with start <= end, the
\* report on A has a schedule overlap with B exactly when the check of
\* candidate B against commitment A gives one, and a travel-time conflict
\* with B exactly when the swapped check gives one, although the buffer is
\* put around the candidate only.
C30_SwapSymmetric ==
    (Returning /\ CandidateExists) =>
        \A i \in Commitments :
            LET t == CommitmentTraining(i)
            IN  ( /\ t.id # training_id
                  /\ Candidate.start_date <= Candidate.end_date
                  /\ t.start_date <= t.end_date )
                => /\ FindingsAbout("schedule_overlap", t.id) # {}
                        <=> overlap_loop(t.id, t, AsCommitment(Candidate), 1) # << >>
                   /\ FindingsAbout("travel_time_conflict", t.id) # {}
                        <=> location_loop(t, AsCommitment(Candidate), 1) # << >>

\* a commitment that overlaps the candidate through the buffer only and is
\* too close to travel to
C30_Witness ==
    /\ Returning
    /\ CandidateExists
    /\ \E i \in Commitments :
          LET t == CommitmentTraining(i)
          IN  /\ t.id # training_id
              /\ Candidate.end_date < t.start_date
              /\ FindingsAbout("schedule_overlap", t.id) # {}
              /\ FindingsAbout("travel_time_conflict", t.id) # {}

\* no request is in flight
Quiescent == \A r \in RequestSlots : requests[r].pc \in {"idle", "done"}
RegisteredInto(tid) ==
    { r \in RequestSlots : /\ requests[r].op = "register"
                           /\ requests[r].detail = "registered"
                           /\ requests[r].training_id = tid }
CancelledFrom(tid) ==
    { r \in RequestSlots : /\ requests[r].op = "cancel"
                           /\ requests[r].detail = "cancelled"
                           /\ requests[r].training_id = tid }

\* C25: when register and cancel requests for a training interleave, no
\* increment or decrement of its counter is lost: once all have completed, the
\* counter is its initial value, which is zero, plus the successful
\* registrations minus the cancellations.
C25_NoLostUpdate ==
    Quiescent =>
        \A tid \in DOMAIN trainings :
            trainings[tid].current_participants =
                Cardinality(RegisteredInto(tid)) - Cardinality(CancelledFrom(tid))

\* C29: a user has at most one active registration for a training, also when
\* two register requests of the user for the training interleave.
C29_OneActiveRegistration ==
    \A uid \in Users, tid \in DOMAIN trainings :
        Cardinality(get_user_registration_for_training(uid, tid)) <= 1

====
